---- MODULE Spec2Model ----
(***************************************************************************)
(* A model of the python_for_BAIS utility modules.                         *)
(*                                                                         *)
(*   database_interaction.py  create_connection / create_table /           *)
(*                            insert_data / query_data, together with the  *)
(*                            sqlite3 engine those four functions drive    *)
(*                            (Python's sqlite3 module in its default,     *)
(*                            legacy transaction control; rollback-journal *)
(*                            file locking; one database file).            *)
(*   business_metrics.py      profit_margin / roi                          *)
(*   financial.py             calculate_roi                                *)
(*                                                                         *)
(* SQL text is a sequence of tokens; the engine parses the text it is      *)
(* handed.  A value is a pair <<storage class, literal>>, so that the      *)
(* engine's type-affinity conversions are real conversions.                *)
(***************************************************************************)
EXTENDS Integers, Sequences, FiniteSets, TLC

(*************************** bounds of the model ***************************)

\* Connection objects the caller may create.
MaxConns == 2
\* Longest row handed to insert_data.
MaxArity == 2
\* Calls per run, wide inputs (Spec).
MaxOps == 4
\* Calls per run, narrow inputs (SpecDeep).
MaxOpsDeep == 8
\* Largest absolute amount handed to the metric functions.
MaxAmount == 4

(******************************** values ***********************************)

None == "None"
ValueError == "ValueError"
ZeroDivisionError == "ZeroDivisionError"
OperationalError == "sqlite3.OperationalError"
IntegrityError == "sqlite3.IntegrityError"
ProgrammingError == "sqlite3.ProgrammingError"

\* Python int 1, str "1", str "x".
I1 == <<"int", "1">>
T1 == <<"text", "1">>
TX == <<"text", "x">>
Values == {I1, T1, TX}
\* Texts that look like an integer.
NumericTexts == {"1"}

Handles == 1..MaxConns
TableNames == {"t", "u"}

RowsUpTo(n) == UNION {[1..k -> Values] : k \in 0..n}

(************************* building statement text *************************)

\* "?" * len(data): a string of n question marks (one token per character).
Repeat(ch, n) == [i \in 1..n |-> ch]

\* sep.join(s) over the characters of s.
Join(sep, s) ==
    IF Len(s) = 0 THEN <<>>
    ELSE [i \in 1..(2 * Len(s) - 1) |-> IF i % 2 = 1 THEN s[(i + 1) \div 2] ELSE sep]

\* line 14: placeholders = ", ".join("?" * len(data))
Placeholders(data) == Join(", ", Repeat("?", Len(data)))

\* A value written into statement text as an SQL literal.
Literal(v) == IF v[1] = "int" THEN v[2] ELSE "'" \o v[2] \o "'"

\* The statement a careless insert_data would build: values pasted into the text.
BuildInsertSqlInline(table, data) ==
    <<"INSERT INTO ", table, " VALUES (">>
        \o Join(", ", [i \in 1..Len(data) |-> Literal(data[i])]) \o <<")">>

\* line 15: sql = f"INSERT INTO {table} VALUES ({placeholders})"
BuildInsertSql(table, data) ==
    <<"INSERT INTO ", table, " VALUES (">> \o Placeholders(data) \o <<")">>

\* The parameters bound with the statement, reversed.
BoundParamsReversed(data) == [i \in 1..Len(data) |-> data[Len(data) + 1 - i]]

\* line 17: cursor.execute(sql, data) binds data, in order, to the placeholders.
BoundParams(data) == data

\* Statement texts the caller writes itself.
SelectSql(table) == <<"SELECT * FROM ", table>>
CreateSql(table, coldefs) == <<"CREATE TABLE ", table, " (">> \o Join(", ", coldefs) \o <<")">>
InsertLitSql(table, lits) == <<"INSERT INTO ", table, " VALUES (">> \o Join(", ", lits) \o <<")">>

CreateT1 == CreateSql("t", <<"a INTEGER", "b TEXT">>)
CreateT2 == CreateSql("t", <<"a TEXT PRIMARY KEY", "b INTEGER">>)
CreateU == CreateSql("u", <<"a TEXT">>)
CreateBad == <<"CREATE TABLE ">>
InsertLitT == InsertLitSql("t", <<"'x'", "1">>)
InsertLitU == InsertLitSql("u", <<"'x'">>)
SelectBad == <<"SELEC">>

(***************************** the SQL engine ******************************)

ColDefTokens == {"a INTEGER", "b INTEGER", "a TEXT", "b TEXT", "a TEXT PRIMARY KEY"}
ColDef(tok) ==
    CASE tok = "a INTEGER" -> [aff |-> "INTEGER", pk |-> FALSE]
      [] tok = "b INTEGER" -> [aff |-> "INTEGER", pk |-> FALSE]
      [] tok = "a TEXT" -> [aff |-> "TEXT", pk |-> FALSE]
      [] tok = "b TEXT" -> [aff |-> "TEXT", pk |-> FALSE]
      [] OTHER -> [aff |-> "TEXT", pk |-> TRUE]

LiteralTokens == {"1", "'1'", "'x'"}
LiteralValue(tok) ==
    CASE tok = "1" -> I1
      [] tok = "'1'" -> T1
      [] OTHER -> TX

\* A comma-separated list: items at the odd positions, ", " at the even ones.
IsList(toks, items) ==
    /\ Len(toks) % 2 = 1
    /\ \A i \in 1..Len(toks) : IF i % 2 = 1 THEN toks[i] \in items ELSE toks[i] = ", "
ListItems(toks) == [i \in 1..((Len(toks) + 1) \div 2) |-> toks[2 * i - 1]]

SyntaxError == [kind |-> "error"]

\* sqlite3_prepare: the parse of a statement text.
Parse(text) ==
    LET n == Len(text)
        body == SubSeq(text, 4, n - 1)
    IN  IF n >= 5 /\ text[1] = "INSERT INTO " /\ text[3] = " VALUES (" /\ text[n] = ")"
           /\ IsList(body, LiteralTokens \cup {"?"})
        THEN [kind |-> "insert", table |-> text[2], items |-> ListItems(body)]
        ELSE IF n = 2 /\ text[1] = "SELECT * FROM "
        THEN [kind |-> "select", table |-> text[2]]
        ELSE IF n >= 5 /\ text[1] = "CREATE TABLE " /\ text[3] = " (" /\ text[n] = ")"
                /\ IsList(body, ColDefTokens)
        THEN [kind |-> "create", table |-> text[2],
              cols |-> [i \in 1..((Len(body) + 1) \div 2) |-> ColDef(ListItems(body)[i])]]
        ELSE SyntaxError

\* Column type affinity applied to a value on its way into a table.
Affinity(aff, v) ==
    IF aff = "INTEGER"
    THEN IF v[1] = "text" /\ v[2] \in NumericTexts THEN <<"int", v[2]>> ELSE v
    ELSE IF v[1] = "int" THEN <<"text", v[2]>> ELSE v

StoredRow(cols, row) == [i \in 1..Len(row) |-> Affinity(cols[i].aff, row[i])]

NoTable == [exists |-> FALSE, cols |-> <<>>, rows |-> <<>>]
NewTable(cols) == [exists |-> TRUE, cols |-> cols, rows |-> <<>>]
Tables(db) == {t \in TableNames : db[t].exists}

\* A connection as the engine sees it: its file lock, whether a BEGIN is open,
\* the schema it has read, and the CREATE statements in its statement cache.
FreshConn == [state |-> "Unopened", inTxn |-> FALSE, lock |-> "none",
              loaded |-> FALSE, known |-> {}, prepared |-> {}]

\* What connection h reads: its own uncommitted pages if it is the writer.
View(st, h) == IF st.conns[h].lock \in {"reserved", "pending"} THEN st.cache ELSE st.disk
Others(st, h, kinds) == \E k \in Handles \ {h} : st.conns[k].lock \in kinds
CanShared(st, h) == st.conns[h].lock # "none" \/ ~Others(st, h, {"pending"})
CanReserved(st, h) ==
    \/ st.conns[h].lock \in {"reserved", "pending"}
    \/ CanShared(st, h) /\ ~Others(st, h, {"reserved", "pending"})
TakeReserved(st, h) ==
    IF st.conns[h].lock \in {"reserved", "pending"} THEN st
    ELSE [st EXCEPT !.conns[h].lock = "reserved", !.cache = st.disk]

Refresh(st, h) == [st EXCEPT !.conns[h].known = Tables(View(st, h))]
CanLoad(st, h) == st.conns[h].loaded \/ CanShared(st, h)
LoadSchema(st, h) ==
    IF st.conns[h].loaded THEN st
    ELSE [st EXCEPT !.conns[h].loaded = TRUE, !.conns[h].known = Tables(View(st, h))]
\* A name the cached schema lacks is looked up again once the schema is re-read.
Lookup(st, h, t) ==
    IF t \in st.conns[h].known \/ ~CanShared(st, h) THEN st ELSE Refresh(st, h)

Raise(st, e) == [exc |-> e, rows |-> <<>>, st |-> st]
Return(st, rows) == [exc |-> None, rows |-> rows, st |-> st]

\* The i-th item of a VALUES list: a literal, or the next bound parameter.
ParamIndex(items, i) == Cardinality({j \in 1..i : items[j] = "?"})
BindItems(items, params) ==
    [i \in 1..Len(items) |->
        IF items[i] = "?" THEN params[ParamIndex(items, i)] ELSE LiteralValue(items[i])]

PkConflict(tbl, row) ==
    \E i \in 1..Len(tbl.cols) : tbl.cols[i].pk /\ \E r \in 1..Len(tbl.rows) : tbl.rows[r][i] = row[i]

ExecSelect(st, h, t) ==
    IF ~CanLoad(st, h) THEN Raise(st, OperationalError)
    ELSE LET s1 == Lookup(LoadSchema(st, h), h, t)
         IN  IF t \notin s1.conns[h].known THEN Raise(s1, OperationalError)
             ELSE IF ~CanShared(s1, h) THEN Raise(s1, OperationalError)
             ELSE LET s2 == IF s1.conns[h].inTxn /\ s1.conns[h].lock = "none"
                            THEN [s1 EXCEPT !.conns[h].lock = "shared"] ELSE s1
                      s3 == Refresh(s2, h)
                  IN  Return(s3, View(s3, h)[t].rows)

ExecInsert(st, h, t, items, params) ==
    IF ~CanLoad(st, h) THEN Raise(st, OperationalError)
    ELSE LET s1 == Lookup(LoadSchema(st, h), h, t)
         IN  IF t \notin s1.conns[h].known THEN Raise(s1, OperationalError)
             ELSE IF Len(items) # Len(View(s1, h)[t].cols) THEN Raise(s1, OperationalError)
             ELSE \* the implicit BEGIN the sqlite3 module issues before a DML statement
                  LET s2 == [s1 EXCEPT !.conns[h].inTxn = TRUE]
                  IN  IF ParamIndex(items, Len(items)) # Len(params)
                      THEN Raise(s2, ProgrammingError)
                      ELSE IF ~CanReserved(s2, h) THEN Raise(s2, OperationalError)
                      ELSE LET s3 == Refresh(TakeReserved(s2, h), h)
                               row == StoredRow(s3.cache[t].cols, BindItems(items, params))
                           IN  IF PkConflict(s3.cache[t], row) THEN Raise(s3, IntegrityError)
                               ELSE Return([s3 EXCEPT !.cache[t].rows = Append(@, row)], <<>>)

ExecCreate(st, h, text, t, cols) ==
    LET cached == text \in st.conns[h].prepared
    IN  IF ~cached /\ ~CanLoad(st, h) THEN Raise(st, OperationalError)
        ELSE LET s0 == IF cached THEN st ELSE LoadSchema(st, h)
             IN  IF ~cached /\ t \in s0.conns[h].known
                 THEN Raise(IF CanShared(s0, h) THEN Refresh(s0, h) ELSE s0, OperationalError)
                 ELSE LET s1 == [s0 EXCEPT !.conns[h].prepared = @ \cup {text}]
                      IN  IF ~CanReserved(s1, h) THEN Raise(s1, OperationalError)
                          ELSE IF s1.conns[h].inTxn
                          THEN \* inside the open transaction: the write lock stays
                               LET s2 == Refresh(TakeReserved(s1, h), h)
                               IN  IF s2.cache[t].exists
                                   THEN Raise([s2 EXCEPT !.conns[h].prepared = @ \ {text}],
                                              OperationalError)
                                   ELSE Return(Refresh([s2 EXCEPT !.cache[t] = NewTable(cols)], h),
                                               <<>>)
                          ELSE \* autocommit: the statement is its own transaction
                               LET s2 == Refresh(s1, h)
                               IN  IF s2.disk[t].exists
                                   THEN Raise([s2 EXCEPT !.conns[h].prepared = @ \ {text}],
                                              OperationalError)
                                   ELSE IF Others(s2, h, {"shared", "reserved", "pending"})
                                   THEN Raise(s2, OperationalError)
                                   ELSE LET d == [s2.disk EXCEPT ![t] = NewTable(cols)]
                                        IN  Return(Refresh([s2 EXCEPT !.disk = d, !.cache = d], h),
                                                   <<>>)

\* cursor.execute(text, params) on an open connection.
Execute(st, h, text, params) ==
    LET stmt == Parse(text)
    IN  CASE stmt.kind = "select" -> ExecSelect(st, h, stmt.table)
          [] stmt.kind = "insert" -> ExecInsert(st, h, stmt.table, stmt.items, params)
          [] stmt.kind = "create" -> ExecCreate(st, h, text, stmt.table, stmt.cols)
          [] OTHER -> Raise(st, OperationalError)

\* conn.commit(): COMMIT if a transaction is open.  The writer needs the file to
\* itself; while another connection still reads, it is left waiting (pending).
Commit(st, h) ==
    IF ~st.conns[h].inTxn THEN Return(st, <<>>)
    ELSE IF st.conns[h].lock \in {"reserved", "pending"} /\ Others(st, h, {"shared"})
    THEN Raise([st EXCEPT !.conns[h].lock = "pending"], OperationalError)
    ELSE Return([st EXCEPT !.disk = View(st, h), !.cache = View(st, h),
                           !.conns[h].lock = "none", !.conns[h].inTxn = FALSE], <<>>)

\* ROLLBACK: the writer's uncommitted pages are dropped, every lock is released.
Rollback(st, h) ==
    [st EXCEPT !.cache = IF st.conns[h].lock \in {"reserved", "pending"} THEN st.disk ELSE @,
               !.conns[h].lock = "none", !.conns[h].inTxn = FALSE]

\* conn.cursor() refuses a closed connection.
CursorOkLax(st, h) == st.conns[h].state # "Unopened"
CursorOk(st, h) == st.conns[h].state = "Open"

\* cursor.fetchall() hands back every row; FetchFirst is what a single fetchone would give.
FetchFirst(rows) == IF Len(rows) = 0 THEN rows ELSE <<rows[1]>>
Fetchall(rows) == rows

(************************ database_interaction.py **************************)

DbFile == "test.db"

\* The connection object the next create_connection call returns.
NextHandle(st) ==
    CHOOSE h \in Handles :
        /\ st.conns[h].state = "Unopened"
        /\ \A k \in 1..(h - 1) : st.conns[k].state # "Unopened"

\* create_connection(db_file): a new open connection on the file.
create_connection(st, db_file) ==
    Return([st EXCEPT !.conns[NextHandle(st)].state = "Open"], <<>>)

\* conn.close() on the object create_connection returned: the open transaction
\* is rolled back and the locks are dropped; closing twice does nothing.
close(st, h) ==
    IF st.conns[h].state # "Open" THEN Return(st, <<>>)
    ELSE Return([Rollback(st, h) EXCEPT !.conns[h].state = "Closed"], <<>>)

create_table(st, conn, create_table_sql) ==
    IF ~CursorOk(st, conn) THEN Raise(st, ProgrammingError)
    ELSE LET e == Execute(st, conn, create_table_sql, <<>>)
         IN  IF e.exc # None THEN e ELSE Commit(e.st, conn)

\* insert_data without its commit.
insert_data_nocommit(st, conn, table, data) ==
    IF ~CursorOk(st, conn) THEN Raise(st, ProgrammingError)
    ELSE Execute(st, conn, BuildInsertSql(table, data), BoundParams(data))

\* insert_data swallowing the engine's error.
insert_data_swallow(st, conn, table, data) ==
    IF ~CursorOk(st, conn) THEN Raise(st, ProgrammingError)
    ELSE LET e == Execute(st, conn, BuildInsertSql(table, data), BoundParams(data))
         IN  IF e.exc # None THEN Return(e.st, <<>>) ELSE Commit(e.st, conn)

insert_data(st, conn, table, data) ==
    IF ~CursorOk(st, conn) THEN Raise(st, ProgrammingError)
    ELSE LET e == Execute(st, conn, BuildInsertSql(table, data), BoundParams(data))
         IN  IF e.exc # None THEN e ELSE Commit(e.st, conn)

\* query_data closing the connection once it has its rows.
query_data_close(st, conn, query) ==
    IF ~CursorOk(st, conn) THEN Raise(st, ProgrammingError)
    ELSE LET e == Execute(st, conn, query, <<>>)
         IN  IF e.exc # None THEN e
             ELSE Return(close(e.st, conn).st, Fetchall(e.rows))

\* query_data committing after its execute, as insert_data does.
query_data_commit(st, conn, query) ==
    IF ~CursorOk(st, conn) THEN Raise(st, ProgrammingError)
    ELSE LET e == Execute(st, conn, query, <<>>)
         IN  IF e.exc # None THEN e
             ELSE LET c == Commit(e.st, conn)
                  IN  IF c.exc # None THEN c ELSE Return(c.st, Fetchall(e.rows))

query_data(st, conn, query) ==
    IF ~CursorOk(st, conn) THEN Raise(st, ProgrammingError)
    ELSE LET e == Execute(st, conn, query, <<>>)
         IN  IF e.exc # None THEN e ELSE Return(e.st, Fetchall(e.rows))

(********************* business_metrics.py, financial.py *******************)

\* A quotient is kept exact, as numerator and denominator.
Quotient(n, d) == [exc |-> None, num |-> n, den |-> d]
Fails(e) == [exc |-> e, num |-> 0, den |-> 1]

profit_margin(revenue, cost) ==
    IF revenue = 0 THEN Fails(ValueError) ELSE Quotient(revenue - cost, revenue)

roi(gain_from_investment, cost_of_investment) ==
    IF cost_of_investment = 0 THEN Fails(ValueError)
    ELSE Quotient(gain_from_investment - cost_of_investment, cost_of_investment)

\* (profit / investment) * 100: the division itself raises on a zero divisor.
calculate_roi(profit, investment) ==
    IF investment = 0 THEN Fails(ZeroDivisionError) ELSE Quotient(profit * 100, investment)

(******************************** state ************************************)

VARIABLES
    conns,       \* the connection objects: Unopened (not created yet), Open, Closed
    disk,        \* the committed content of the database file
    cache,       \* the content as the writing connection sees it
    last,        \* the last call: its arguments, the exception it raised, its result
    prev,        \* the call before it
    insertLog,   \* per table, the rows of the insert_data calls that returned
    queryWrote,  \* whether query_data has executed a writing statement
    nOps,        \* calls made so far
    sq,          \* statement building on its own: inputs and the texts built
    bm           \* the last metric call

vars == <<conns, disk, cache, last, prev, insertLog, queryWrote, nOps, sq, bm>>
dbvars == <<conns, disk, cache, last, prev, insertLog, queryWrote, nOps>>

St == [conns |-> conns, disk |-> disk, cache |-> cache]

NoCall == [op |-> "none", conn |-> 0, table |-> "", row |-> <<>>, sql |-> <<>>,
           exc |-> None, result |-> <<>>]
SqIdle == [table |-> "", row1 |-> <<>>, row2 |-> <<>>, built |-> FALSE,
           text1 |-> <<>>, text2 |-> <<>>, params1 |-> <<>>, params2 |-> <<>>]
BmIdle == [fn |-> "none", a |-> 0, b |-> 0, exc |-> None, num |-> 0, den |-> 1]

DbInit ==
    /\ conns = [h \in Handles |-> FreshConn]
    /\ disk = [t \in TableNames |-> NoTable]
    /\ cache = [t \in TableNames |-> NoTable]
    /\ last = NoCall
    /\ prev = NoCall
    /\ insertLog = [t \in TableNames |-> <<>>]
    /\ queryWrote = FALSE
    /\ nOps = 0

Init == DbInit /\ sq = SqIdle /\ bm = BmIdle

\* The inputs of a run.
Wide == [rows |-> RowsUpTo(MaxArity),
         tables |-> TableNames,
         creates |-> {CreateT1, CreateT2, CreateU, CreateBad},
         queries |-> {SelectSql("t"), SelectSql("u"), InsertLitT, InsertLitU, SelectBad},
         maxOps |-> MaxOps]
Narrow == [rows |-> {<<TX, I1>>, <<T1, T1>>, <<TX>>},
           tables |-> {"t"},
           creates |-> {CreateT1, CreateT2},
           queries |-> {SelectSql("t"), InsertLitT},
           maxOps |-> MaxOpsDeep]

\* The effect of a call on the engine and the record of the call.
Did(r, op, h, table, row, sql) ==
    /\ conns' = r.st.conns
    /\ disk' = r.st.disk
    /\ cache' = r.st.cache
    /\ last' = [op |-> op, conn |-> h, table |-> table, row |-> row, sql |-> sql,
                exc |-> r.exc, result |-> r.rows]
    /\ prev' = last
    /\ nOps' = nOps + 1
    /\ UNCHANGED <<sq, bm>>

\* Connection objects the caller holds.
Held == {h \in Handles : conns[h].state # "Unopened"}

OpenConnection(P) ==
    /\ nOps < P.maxOps
    /\ \E h \in Handles : conns[h].state = "Unopened"
    /\ Did(create_connection(St, DbFile), "create_connection", NextHandle(St), "", <<>>, <<>>)
    /\ UNCHANGED <<insertLog, queryWrote>>

CloseConnection(P) ==
    /\ nOps < P.maxOps
    /\ \E h \in Held :
          Did(close(St, h), "close", h, "", <<>>, <<>>)
    /\ UNCHANGED <<insertLog, queryWrote>>

CreateTable(P) ==
    /\ nOps < P.maxOps
    /\ \E h \in Held, sql \in P.creates :
          Did(create_table(St, h, sql), "create_table", h, "", <<>>, sql)
    /\ UNCHANGED <<insertLog, queryWrote>>

InsertData(P) ==
    /\ nOps < P.maxOps
    /\ \E h \in Held, table \in P.tables, data \in P.rows :
          LET r == insert_data(St, h, table, data)
          IN  /\ Did(r, "insert_data", h, table, data, BuildInsertSql(table, data))
              /\ insertLog' = IF r.exc = None
                              THEN [insertLog EXCEPT ![table] = Append(@, data)]
                              ELSE insertLog
    /\ UNCHANGED queryWrote

QueryData(P) ==
    /\ nOps < P.maxOps
    /\ \E h \in Held, query \in P.queries :
          LET r == query_data(St, h, query)
          IN  /\ Did(r, "query_data", h, "", <<>>, query)
              /\ queryWrote' = (queryWrote \/ (r.exc = None /\ Parse(query).kind # "select"))
    /\ UNCHANGED insertLog

Next ==
    \/ OpenConnection(Wide)
    \/ CloseConnection(Wide)
    \/ CreateTable(Wide)
    \/ InsertData(Wide)
    \/ QueryData(Wide)

NextDeep ==
    \/ OpenConnection(Narrow)
    \/ CloseConnection(Narrow)
    \/ CreateTable(Narrow)
    \/ InsertData(Narrow)
    \/ QueryData(Narrow)

Spec == Init /\ [][Next]_vars
SpecDeep == Init /\ [][NextDeep]_vars

(********************* statement building on its own ***********************)

SqlTableNames == {"t", "u", "sales"}

SqlInit ==
    /\ DbInit
    /\ bm = BmIdle
    /\ \E t \in SqlTableNames, r1 \in RowsUpTo(MaxArity), r2 \in RowsUpTo(MaxArity) :
          sq = [SqIdle EXCEPT !.table = t, !.row1 = r1, !.row2 = r2]

BuildSql ==
    /\ ~sq.built
    /\ sq' = [sq EXCEPT !.built = TRUE,
                        !.text1 = BuildInsertSql(sq.table, sq.row1),
                        !.text2 = BuildInsertSql(sq.table, sq.row2),
                        !.params1 = BoundParams(sq.row1),
                        !.params2 = BoundParams(sq.row2)]
    /\ UNCHANGED <<dbvars, bm>>

SpecSql == SqlInit /\ [][BuildSql]_vars

(************************** the metric functions ***************************)

Amounts == (0 - MaxAmount)..MaxAmount

Called(fn, a, b, r) == [fn |-> fn, a |-> a, b |-> b, exc |-> r.exc, num |-> r.num, den |-> r.den]

CallProfitMargin ==
    /\ \E revenue, cost \in Amounts :
          bm' = Called("profit_margin", revenue, cost, profit_margin(revenue, cost))
    /\ UNCHANGED <<dbvars, sq>>

CallRoi ==
    /\ \E gain, cost \in Amounts : bm' = Called("roi", gain, cost, roi(gain, cost))
    /\ UNCHANGED <<dbvars, sq>>

CallCalculateRoi ==
    /\ \E profit, investment \in Amounts :
          bm' = Called("calculate_roi", profit, investment, calculate_roi(profit, investment))
    /\ UNCHANGED <<dbvars, sq>>

NextMetrics == CallProfitMargin \/ CallRoi \/ CallCalculateRoi

SpecMetrics == Init /\ [][NextMetrics]_vars

(******************************* the claims ********************************)

StNext == [conns |-> conns', disk |-> disk', cache |-> cache']
IsCall == nOps' = nOps + 1
DbCalls == {"create_table", "insert_data", "query_data"}
SelectCall(c) == c.op = "query_data" /\ Parse(c.sql).kind = "select"
\* query_data handed a statement that does not write: a SELECT, or text the engine rejects.
ReadOnlyCall(c) == c.op = "query_data" /\ Parse(c.sql).kind \in {"select", "error"}
Contains(rows, row) == \E i \in 1..Len(rows) : rows[i] = row
\* What every connection would read, table by table.
Views(st) == [h \in Handles |-> View(st, h)]

\* The conversions the engine is documented to make on the way into a column.
AsStored(aff, v) ==
    CASE aff = "INTEGER" /\ v = T1 -> I1
      [] aff = "TEXT" /\ v = I1 -> T1
      [] OTHER -> v
RowAsStored(cols, row) == [i \in 1..Len(row) |-> AsStored(cols[i].aff, row[i])]

\* A successful insert_data immediately followed by SELECT * on the same connection.
InsertThenSelect ==
    /\ prev.op = "insert_data" /\ prev.exc = None
    /\ last.op = "query_data" /\ last.conn = prev.conn /\ last.sql = SelectSql(prev.table)

\* C1 (as stated): after a successful insert_data of a row, SELECT * FROM the table on
\* the same connection returns a result set containing exactly that row, values unchanged.
C1_RoundTripExact ==
    InsertThenSelect => (last.exc = None /\ Contains(last.result, prev.row))

\* C1 (amended): the result set contains the row as the engine stored it: each value
\* converted by the type affinity of its column (the text of a number sent to an INTEGER
\* column comes back as the integer, an integer sent to a TEXT column comes back as its
\* text), every other value unchanged, positions preserved.
C1_RoundTripStored ==
    InsertThenSelect =>
        /\ last.exc = None
        /\ Contains(last.result,
                    RowAsStored(View(St, last.conn)[prev.table].cols, prev.row))

C1_Witness ==
    /\ InsertThenSelect
    /\ last.exc = None
    /\ Len(prev.row) = 2
    /\ ~Contains(last.result, prev.row)

\* Connection h holds writes nobody committed, or a transaction still open.
HasPending(st, h) == st.conns[h].inTxn \/ st.conns[h].lock # "none" \/ View(st, h) # st.disk

\* C2: right after a successful create_table or insert_data returns, the connection
\* has no pending uncommitted writes, whatever calls came before.
C2_CommittedOnReturn ==
    (last.op \in {"create_table", "insert_data"} /\ last.exc = None)
        => ~HasPending(St, last.conn)

\* insert_data returned on a connection that a writing query_data had left in a transaction.
C2_Witness ==
    /\ last.op = "insert_data" /\ last.exc = None
    /\ prev.op = "query_data" /\ prev.exc = None /\ prev.conn = last.conn
    /\ Parse(prev.sql).kind = "insert"
    /\ Len(disk[last.table].rows) = 2

\* C3 (as stated): every one of the four operations (open, create table, insert, query)
\* invoked once a connection has been closed fails and changes nothing.
C3_ClosedRejectsAllFour ==
    /\ (last.op \in DbCalls /\ conns[last.conn].state = "Closed") => last.exc # None
    /\ (last.op = "create_connection"
            /\ \E h \in Handles \ {last.conn} : conns[h].state = "Closed")
        => last.exc # None

\* C3 (amended): a closed connection stays closed, and create_table, insert_data and
\* query_data on it raise sqlite3.ProgrammingError and change nothing; create_connection
\* takes a location, not a connection, and still succeeds, returning a new open connection.
C3_ClosedStaysClosed ==
    [][\A h \in Handles :
          conns[h].state = "Closed" =>
              /\ conns'[h].state = "Closed"
              /\ (IsCall /\ last'.op \in DbCalls /\ last'.conn = h) =>
                    (last'.exc = ProgrammingError /\ StNext = St /\ insertLog' = insertLog)
              /\ (IsCall /\ last'.op = "create_connection") =>
                    (last'.exc = None /\ conns'[last'.conn].state = "Open"
                        /\ last'.conn # h)]_vars

C3_Witness ==
    /\ last.op \in DbCalls /\ conns[last.conn].state = "Closed"
    /\ last.exc = ProgrammingError
    /\ prev.op = "create_connection" /\ prev.conn # last.conn

\* insert_data handed a row whose length is not the column count of the existing table.
ArityMismatch(st, c) ==
    /\ c.op = "insert_data"
    /\ st.conns[c.conn].state = "Open"
    /\ c.table \in Tables(View(st, c.conn))
    /\ Len(c.row) # Len(View(st, c.conn)[c.table].cols)

\* C4: insert_data with a row whose length differs from the table's column count
\* fails (the engine's OperationalError), and no row is added: a query of the table
\* after the call returns what it returned before the call.
C4_ArityMismatchFails ==
    [][(IsCall /\ ArityMismatch(St, last')) =>
          /\ last'.exc = OperationalError
          /\ disk' = disk /\ cache' = cache /\ insertLog' = insertLog
          /\ LET before == query_data(St, last'.conn, SelectSql(last'.table))
                 after == query_data(StNext, last'.conn, SelectSql(last'.table))
             IN  after.exc = before.exc /\ after.rows = before.rows]_vars

C4_Witness ==
    /\ ArityMismatch(St, last)
    /\ last.exc = OperationalError
    /\ Len(View(St, last.conn)[last.table].rows) > 0

\* C5: a failed create_table, insert_data or query_data leaves no partial write: what
\* each connection reads afterwards is what it read before the call.  (Stated for runs
\* in which query_data was only ever handed statements that do not write.)
C5_NoPartialFailure ==
    [][(IsCall /\ last'.op \in DbCalls /\ last'.exc # None /\ ~queryWrote)
          => Views(StNext) = Views(St)]_vars

\* Number of "?" tokens of a statement text.
CountPlaceholders(text) == Cardinality({i \in 1..Len(text) : text[i] = "?"})

\* C6: the statement text insert_data builds holds exactly one placeholder per value of
\* the row, is the same for two rows of equal length (it depends on the table name and
\* the row's length only), and the values travel as bound parameters, in row order.
C6_InsertParameterized ==
    sq.built =>
        /\ CountPlaceholders(sq.text1) = Len(sq.row1)
        /\ sq.text1[2] = sq.table
        /\ Len(sq.row1) = Len(sq.row2) => sq.text1 = sq.text2
        /\ Len(sq.row1) # Len(sq.row2) => sq.text1 # sq.text2
        /\ sq.params1 = sq.row1
        /\ Len(sq.row1) > 0 =>
              /\ Parse(sq.text1).kind = "insert"
              /\ Parse(sq.text1).table = sq.table
              /\ BindItems(Parse(sq.text1).items, sq.params1) = sq.row1

C6_Witness ==
    /\ sq.built
    /\ Len(sq.row1) = 2 /\ Len(sq.row2) = 2
    /\ sq.row1[1] # sq.row2[1] /\ sq.row1[2] # sq.row2[2]
    /\ sq.text1 = sq.text2

\* The same query_data call made twice in a row on a connection that was open when
\* the first of the two was made (it was not refused as closed).
RepeatedQuery ==
    /\ prev.op = "query_data" /\ last.op = "query_data"
    /\ last.conn = prev.conn /\ last.sql = prev.sql
    /\ prev.exc # ProgrammingError

\* C7 (as stated): query_data called twice in a row with the same statement on the same
\* open connection returns identical result sets.
C7_RepeatQuerySame ==
    RepeatedQuery => (last.exc = prev.exc /\ last.result = prev.result)

\* C7 (amended): the same holds when the statement does not write (a SELECT, or text the
\* engine rejects); a writing statement handed to query_data may succeed once and fail next.
C7_RepeatSelectSame ==
    (RepeatedQuery /\ ReadOnlyCall(last)) => (last.exc = prev.exc /\ last.result = prev.result)

C7_Witness ==
    /\ RepeatedQuery /\ SelectCall(last)
    /\ last.exc = None /\ Len(last.result) > 0
    /\ last.result = prev.result

\* C8 (as stated): query_data, for any statement text, changes no stored table content
\* and leaves no pending uncommitted write on the connection.
C8_QueryReadOnly ==
    [][(IsCall /\ last'.op = "query_data")
          => (disk' = disk /\ cache' = cache
                /\ (HasPending(StNext, last'.conn) => HasPending(St, last'.conn)))]_vars

\* C8 (amended): so it is for a statement that does not write (a SELECT, or text the
\* engine rejects), succeeding or failing; inside an open transaction the SELECT takes
\* the read lock and nothing else.
C8_SelectReadOnly ==
    [][(IsCall /\ ReadOnlyCall(last'))
          => /\ disk' = disk /\ cache' = cache /\ insertLog' = insertLog
             /\ \A h \in Handles : conns'[h].inTxn = conns[h].inTxn
             /\ \A h \in Handles \ {last'.conn} : conns'[h] = conns[h]
             /\ View(StNext, last'.conn) = View(St, last'.conn)]_vars

C8_Witness ==
    /\ SelectCall(last) /\ last.exc = None
    /\ conns[last.conn].inTxn /\ conns[last.conn].lock = "shared"
    /\ Len(last.result) > 0

\* The metric functions that divide, and the argument each divides by.
Divisor(c) == IF c.fn = "profit_margin" THEN c.a ELSE c.b

\* C9: profit_margin, roi and calculate_roi fail with the invalid-argument error (the
\* ValueError the tests assert) when the divisor is zero, and return a number otherwise.
C9_ZeroDivisorInvalidArgument ==
    bm.fn # "none" =>
        IF Divisor(bm) = 0 THEN bm.exc = ValueError
        ELSE bm.exc = None /\ bm.den # 0

\* Every call so far went through the one connection, which is still open.
OneConnection == conns[1].state = "Open" /\ \A h \in Handles \ {1} : conns[h].state = "Unopened"
Unconstrained(tbl) == \A i \in 1..Len(tbl.cols) : ~tbl.cols[i].pk
\* SELECT * on one connection of a table created without constraints.
SelectOnOne ==
    /\ OneConnection
    /\ SelectCall(last) /\ last.exc = None
    /\ Unconstrained(View(St, 1)[last.sql[2]])
\* One row per logged insert_data call, in call order.
MatchesLog(rows, tbl, log) ==
    /\ Len(rows) = Len(log)
    /\ \A i \in 1..Len(log) : rows[i] = RowAsStored(tbl.cols, log[i])

\* C10 (as stated): after any sequence of create_table, insert_data and query_data calls
\* on one open connection, SELECT * returns exactly one row per successful insert_data
\* call into the table, in call order.
C10_OneRowPerInsert ==
    SelectOnOne => MatchesLog(last.result, View(St, 1)[last.sql[2]], insertLog[last.sql[2]])

\* C10 (amended): so it does provided no query_data call was handed a statement that
\* writes; a row written through query_data shows up without any insert_data call.
C10_OneRowPerInsertReadOnlyQueries ==
    (SelectOnOne /\ ~queryWrote)
        => MatchesLog(last.result, View(St, 1)[last.sql[2]], insertLog[last.sql[2]])

\* Two inserts returned, a third failed, and the query shows the two.
C10_Witness ==
    /\ SelectOnOne /\ ~queryWrote
    /\ prev.op = "insert_data" /\ prev.exc # None
    /\ Len(last.result) = 2
    /\ last.result[1] # last.result[2]

====
